---- MODULE Spec2Model ----
(***************************************************************************)
(* Model of ouvprofilchrome.py: resolve a Chrome profile display name to   *)
(* its directory through the "Local State" file, then launch Chrome with   *)
(* that directory.                                                         *)
(*                                                                         *)
(* The Local State file is represented by the outcome of open()+json.load: *)
(* either a failure (missing, unreadable, invalid JSON) or the parsed      *)
(* value.  A parsed JSON value is a record [t, s, kv]: t is the Python     *)
(* type of the value, s the text of a str, kv the items of a dict in       *)
(* iteration order (keys unique).  The file is never written by the        *)
(* program and is taken as unchanged during one run.                       *)
(***************************************************************************)
EXTENDS Integers, Sequences, FiniteSets, TLC

VARIABLES file, argv, pc, desired_display_name, resolved_dir, spawns, ret,
          stdout, stderr, exit_code

vars == <<file, argv, pc, desired_display_name, resolved_dir, spawns, ret,
          stdout, stderr, exit_code>>

\* Largest number of entries of info_cache that is enumerated.
MaxEntries == 2

----------------------------------------------------------------------------
\* JSON values as Python objects.

JNull == [t |-> "null", s |-> "", kv |-> <<>>]

JNum == [t |-> "num", s |-> "", kv |-> <<>>]

JList == [t |-> "list", s |-> "", kv |-> <<>>]

JStr(x) == [t |-> "str", s |-> x, kv |-> <<>>]

JDict(items) == [t |-> "dict", s |-> "", kv |-> items]

\* A field that is left out of a record when the record is built.
Absent == [t |-> "absent", s |-> "", kv |-> <<>>]

isinstance_dict(v) == v.t = "dict"

\* dict.get(key, default) on a value that is a dict.
dict_get(d, key, default) ==
    IF \E i \in DOMAIN d.kv : d.kv[i].k = key
    THEN d.kv[CHOOSE i \in DOMAIN d.kv : d.kv[i].k = key].v
    ELSE default

\* x == display_name where display_name is a Python str: only an equal str.
py_eq_str(x, display_name) == x.t = "str" /\ x.s = display_name

\* open(local_state_path) followed by json.load(f).
json_load(f) == [ok |-> f.status = "ok", data |-> f.data]

----------------------------------------------------------------------------
\* find_profile_dir_by_display_name

ReturnNone == [kind |-> "return", none |-> TRUE, val |-> ""]

ReturnDir(d) == [kind |-> "return", none |-> FALSE, val |-> d]

RaiseAttributeError == [kind |-> "raise", none |-> TRUE, val |-> ""]

NotCalled == [kind |-> "notcalled", none |-> TRUE, val |-> ""]

name_match(info, display_name) ==
    /\ isinstance_dict(info)
    /\ py_eq_str(dict_get(info, "name", JNull), display_name)

secondary_match_gaia_only(info, display_name) ==
    /\ isinstance_dict(info)
    /\ py_eq_str(dict_get(info, "gaia_name", JNull), display_name)

secondary_match(info, display_name) ==
    /\ isinstance_dict(info)
    /\ \/ py_eq_str(dict_get(info, "gaia_name", JNull), display_name)
       \/ py_eq_str(dict_get(info, "user_name", JNull), display_name)

\* First loop: index of the first item matched on "name", 0 when the loop
\* ends without returning.
RECURSIVE primary_pass(_, _, _)
primary_pass(items, i, display_name) ==
    IF i > Len(items) THEN 0
    ELSE IF name_match(items[i].v, display_name) THEN i
    ELSE primary_pass(items, i + 1, display_name)

\* Second loop: index of the first item matched on gaia_name or user_name.
RECURSIVE secondary_pass(_, _, _)
secondary_pass(items, i, display_name) ==
    IF i > Len(items) THEN 0
    ELSE IF secondary_match(items[i].v, display_name) THEN i
    ELSE secondary_pass(items, i + 1, display_name)

RECURSIVE single_pass(_, _, _)
single_pass(items, i, display_name) ==
    IF i > Len(items) THEN 0
    ELSE IF \/ name_match(items[i].v, display_name)
            \/ secondary_match(items[i].v, display_name) THEN i
    ELSE single_pass(items, i + 1, display_name)

scan_one_loop(items, display_name) ==
    LET s == single_pass(items, 1, display_name)
    IN  IF s # 0 THEN ReturnDir(items[s].k) ELSE ReturnNone

\* The two loops over info_cache.items().
scan_info_cache(items, display_name) ==
    LET p == primary_pass(items, 1, display_name)
        s == secondary_pass(items, 1, display_name)
    IN  IF p # 0 THEN ReturnDir(items[p].k)
        ELSE IF s # 0 THEN ReturnDir(items[s].k)
        ELSE ReturnNone

find_profile_dir_by_display_name(f, display_name) ==
    LET loaded == json_load(f)
        data == loaded.data
    IN  IF ~loaded.ok THEN ReturnNone
        ELSE IF ~isinstance_dict(data) THEN ReturnNone
        ELSE LET profile == dict_get(data, "profile", JDict(<<>>))
             IN  IF ~isinstance_dict(profile) THEN RaiseAttributeError
                 ELSE LET info_cache == dict_get(profile, "info_cache", JNull)
                      IN  IF ~isinstance_dict(info_cache) THEN ReturnNone
                          ELSE scan_info_cache(info_cache.kv, display_name)

\* Truth value of the resolver's result in "if resolved_dir:".
truthy(r) == ~r.none /\ r.val # ""

----------------------------------------------------------------------------
\* Output lines.

Line(kind, dir, val) == [kind |-> kind, dir |-> dir, val |-> val]

NotFoundLine(display_name) == Line("not_found", "", JStr(display_name))

HeaderLine == Line("available_profiles", "", JNull)

ProfileLine(item) ==
    Line("profile", item.k,
         IF isinstance_dict(item.v) THEN dict_get(item.v, "name", JNull)
         ELSE JNull)

LaunchFailedLine == Line("failed_to_launch", "", JNull)

OpenFailedLine == Line("failed_to_launch_via_open", "", JNull)

TracebackLine == Line("traceback", "", JNull)

listing_with_header_always(f) ==
    LET loaded == json_load(f)
        data == loaded.data
    IN  IF loaded.ok /\ isinstance_dict(data)
           /\ isinstance_dict(dict_get(data, "profile", JDict(<<>>)))
           /\ isinstance_dict(dict_get(dict_get(data, "profile", JDict(<<>>)),
                                       "info_cache", JDict(<<>>)))
        THEN LET items == dict_get(dict_get(data, "profile", JDict(<<>>)),
                                   "info_cache", JDict(<<>>)).kv
             IN  <<HeaderLine>> \o [i \in 1..Len(items) |-> ProfileLine(items[i])]
        ELSE <<HeaderLine>>

\* What the try block at the end of main prints; every exception in it is
\* swallowed.
available_profiles_listing(f) ==
    LET loaded == json_load(f)
        data == loaded.data
    IN  IF ~loaded.ok THEN <<>>
        ELSE IF ~isinstance_dict(data) THEN <<>>
        ELSE LET profile == dict_get(data, "profile", JDict(<<>>))
             IN  IF ~isinstance_dict(profile) THEN <<>>
                 ELSE LET info_cache == dict_get(profile, "info_cache", JDict(<<>>))
                      IN  IF isinstance_dict(info_cache) /\ info_cache.kv # <<>>
                          THEN <<HeaderLine>> \o
                               [i \in 1..Len(info_cache.kv) |->
                                   ProfileLine(info_cache.kv[i])]
                          ELSE <<>>

----------------------------------------------------------------------------
\* The files and command lines that are enumerated.

DefaultName == "telecomdesign.fr"

DirNames == {"", "Default", "Profile 2"}

ArgNames == {"alice", "bob"}

NameVals == {Absent, JStr(DefaultName), JStr("alice"), JNum}

GaiaVals == {Absent, JStr("alice")}

UserVals == {Absent, JStr("alice")}

InfoDict(n, g, u) ==
    JDict(SelectSeq(<<[k |-> "name", v |-> n],
                      [k |-> "gaia_name", v |-> g],
                      [k |-> "user_name", v |-> u]>>,
                    LAMBDA e : e.v # Absent))

Infos ==
    {JStr("alice")} \cup
    {InfoDict(n, g, u) : n \in NameVals, g \in GaiaVals, u \in UserVals}

Entries == {[k |-> d, v |-> i] : d \in DirNames, i \in Infos}

Caches ==
    {c \in UNION {[1..n -> Entries] : n \in 0..MaxEntries} :
        \A i, j \in DOMAIN c : i # j => c[i].k # c[j].k}

InfoCacheVals == {JNull, JList} \cup {JDict(c) : c \in Caches}

ProfileVals ==
    {JNull, JList, JStr("alice"), JDict(<<>>)} \cup
    {JDict(<<[k |-> "info_cache", v |-> ic]>>) : ic \in InfoCacheVals}

DataVals ==
    {JNull, JList, JStr("alice"), JDict(<<>>)} \cup
    {JDict(<<[k |-> "profile", v |-> p]>>) : p \in ProfileVals}

Files ==
    {[status |-> s, data |-> JNull] : s \in {"missing", "unreadable", "invalid_json"}}
    \cup {[status |-> "ok", data |-> d] : d \in DataVals}

Argvs == {<<"ouvprofilchrome.py">>} \cup
         {<<"ouvprofilchrome.py", n>> : n \in ArgNames}

----------------------------------------------------------------------------
Init ==
    /\ file \in Files
    /\ argv \in Argvs
    /\ pc = "start"
    /\ desired_display_name = ""
    /\ resolved_dir = NotCalled
    /\ spawns = <<>>
    /\ ret = -1
    /\ stdout = <<>>
    /\ stderr = <<>>
    /\ exit_code = -1

\* main, line 71.
MainArgs ==
    /\ pc = "start"
    /\ desired_display_name' = IF Len(argv) > 1 THEN argv[2] ELSE DefaultName
    /\ pc' = "resolve"
    /\ UNCHANGED <<file, argv, resolved_dir, spawns, ret, stdout, stderr, exit_code>>

\* main, lines 73-74.  An exception of the resolver is not caught by main:
\* the interpreter prints the traceback and the process ends with status 1.
MainResolve ==
    /\ pc = "resolve"
    /\ LET r == find_profile_dir_by_display_name(file, desired_display_name)
       IN  /\ resolved_dir' = r
           /\ IF r.kind = "raise"
              THEN /\ stderr' = Append(stderr, TracebackLine)
                   /\ exit_code' = 1
                   /\ pc' = "done"
              ELSE /\ pc' = IF truthy(r) THEN "direct" ELSE "report"
                   /\ UNCHANGED <<stderr, exit_code>>
    /\ UNCHANGED <<file, argv, desired_display_name, spawns, ret, stdout>>

profile_directory_default(profile_dir) == <<"--profile-directory=", "Default">>

\* f"--profile-directory={profile_dir}"
profile_directory_arg(profile_dir) == <<"--profile-directory=", profile_dir>>

Spawn(strategy, profile_dir, outcome) ==
    [strategy |-> strategy, arg |-> profile_directory_arg(profile_dir),
     outcome |-> outcome]

LaunchDirectFallbackOnAnyError ==
    /\ pc = "direct"
    /\ \E outcome \in {"ok", "FileNotFoundError", "Exception"} :
         /\ spawns' = Append(spawns, Spawn("direct", resolved_dir.val, outcome))
         /\ IF outcome = "ok"
            THEN /\ ret' = 0
                 /\ pc' = "exit"
            ELSE /\ pc' = "fallback"
                 /\ UNCHANGED ret
    /\ UNCHANGED <<file, argv, desired_display_name, resolved_dir, stdout,
                   stderr, exit_code>>

\* launch_chrome_with_profile, lines 48-54 and 64-66: Popen of the binary.
LaunchDirect ==
    /\ pc = "direct"
    /\ \E outcome \in {"ok", "FileNotFoundError", "Exception"} :
         /\ spawns' = Append(spawns, Spawn("direct", resolved_dir.val, outcome))
         /\ CASE outcome = "ok" ->
                   /\ ret' = 0
                   /\ pc' = "exit"
                   /\ UNCHANGED stderr
              [] outcome = "FileNotFoundError" ->
                   /\ pc' = "fallback"
                   /\ UNCHANGED <<ret, stderr>>
              [] outcome = "Exception" ->
                   /\ stderr' = Append(stderr, LaunchFailedLine)
                   /\ ret' = 1
                   /\ pc' = "exit"
    /\ UNCHANGED <<file, argv, desired_display_name, resolved_dir, stdout, exit_code>>

\* launch_chrome_with_profile, lines 55-63: Popen of "open -na".
LaunchFallback ==
    /\ pc = "fallback"
    /\ \E outcome \in {"ok", "Exception"} :
         /\ spawns' = Append(spawns, Spawn("open", resolved_dir.val, outcome))
         /\ IF outcome = "ok"
            THEN /\ ret' = 0
                 /\ UNCHANGED stderr
            ELSE /\ ret' = 1
                 /\ stderr' = Append(stderr, OpenFailedLine)
         /\ pc' = "exit"
    /\ UNCHANGED <<file, argv, desired_display_name, resolved_dir, stdout, exit_code>>

\* main, line 75: sys.exit(launch_chrome_with_profile(resolved_dir)).
MainExitLaunch ==
    /\ pc = "exit"
    /\ exit_code' = ret
    /\ pc' = "done"
    /\ UNCHANGED <<file, argv, desired_display_name, resolved_dir, spawns, ret,
                   stdout, stderr>>

\* main, lines 78-83.
MainReport ==
    /\ pc = "report"
    /\ stderr' = Append(stderr, NotFoundLine(desired_display_name))
    /\ pc' = "list"
    /\ UNCHANGED <<file, argv, desired_display_name, resolved_dir, spawns, ret,
                   stdout, exit_code>>

\* main, lines 85-98: print() without file= writes to standard output.
MainList ==
    /\ pc = "list"
    /\ stdout' = stdout \o available_profiles_listing(file)
    /\ pc' = "exit2"
    /\ UNCHANGED <<file, argv, desired_display_name, resolved_dir, spawns, ret,
                   stderr, exit_code>>

\* main, line 101.
MainExit2 ==
    /\ pc = "exit2"
    /\ exit_code' = 2
    /\ pc' = "done"
    /\ UNCHANGED <<file, argv, desired_display_name, resolved_dir, spawns, ret,
                   stdout, stderr>>

Next ==
    \/ MainArgs
    \/ MainResolve
    \/ LaunchDirect
    \/ LaunchFallback
    \/ MainExitLaunch
    \/ MainReport
    \/ MainList
    \/ MainExit2

Spec == Init /\ [][Next]_vars

----------------------------------------------------------------------------
\* Vocabulary of the properties.

\* The items of profile.info_cache of the file, <<>> when there is none.
LoadedCache ==
    IF /\ file.status = "ok"
       /\ file.data.t = "dict"
       /\ dict_get(file.data, "profile", JNull).t = "dict"
       /\ dict_get(dict_get(file.data, "profile", JNull), "info_cache", JNull).t = "dict"
    THEN dict_get(dict_get(file.data, "profile", JNull), "info_cache", JNull).kv
    ELSE <<>>

HasField(info, fld, n) ==
    /\ info.t = "dict"
    /\ \E j \in DOMAIN info.kv : info.kv[j].k = fld /\ info.kv[j].v = JStr(n)

NameIdx ==
    {i \in DOMAIN LoadedCache : HasField(LoadedCache[i].v, "name", desired_display_name)}

SecIdx ==
    {i \in DOMAIN LoadedCache :
        \/ HasField(LoadedCache[i].v, "gaia_name", desired_display_name)
        \/ HasField(LoadedCache[i].v, "user_name", desired_display_name)}

Min(S) == CHOOSE x \in S : \A y \in S : x <= y

ResolverRan == pc \notin {"start", "resolve"}

ReturnedDir == resolved_dir.kind = "return" /\ ~resolved_dir.none

LauncherReturned == ret # -1

LaunchFailureLines ==
    SelectSeq(stderr, LAMBDA l : l.kind \in {"failed_to_launch",
                                             "failed_to_launch_via_open"})

ProfileLinesPrinted ==
    SelectSeq(stdout \o stderr, LAMBDA l : l.kind = "profile")

SomeSpawnSucceeded == \E i \in DOMAIN spawns : spawns[i].outcome = "ok"

----------------------------------------------------------------------------
\* C1: when the requested name equals the `name` of some record, the
\* resolver returns the key of the first such record, and main attempts a
\* launch and does not exit with code 2, whatever the key is.
C1_NameMatchLaunches ==
    (pc = "done" /\ NameIdx # {}) =>
        /\ resolved_dir = ReturnDir(LoadedCache[Min(NameIdx)].k)
        /\ spawns # <<>>
        /\ exit_code # 2

\* C2: no exception escapes the resolver, whatever the file holds, and the
\* program does not crash.
C2_NoExceptionEscapes ==
    /\ resolved_dir.kind # "raise"
    /\ \A i \in DOMAIN stderr : stderr[i].kind # "traceback"

\* C3: when the requested name matches no record, main exits with code 2
\* and prints exactly one line per entry of info_cache.
C3_NoMatchListsAll ==
    (pc = "done" /\ NameIdx = {} /\ SecIdx = {}) =>
        /\ exit_code = 2
        /\ Len(ProfileLinesPrinted) = Len(LoadedCache)
        /\ {ProfileLinesPrinted[i].dir : i \in DOMAIN ProfileLinesPrinted}
             = {LoadedCache[i].k : i \in DOMAIN LoadedCache}

\* C4: the exit code is 2 exactly when no directory was resolved and nothing
\* was spawned; with a resolved directory it is 0 when a spawn succeeded and
\* 1 when every attempted spawn failed; there is no other exit code.
C4_ExitCodeReflectsLaunch ==
    pc = "done" =>
        /\ exit_code \in {0, 1, 2}
        /\ exit_code = 2 <=> (~ReturnedDir /\ spawns = <<>>)
        /\ ReturnedDir => exit_code = IF SomeSpawnSucceeded THEN 0 ELSE 1
        /\ exit_code = 2 => spawns = <<>>

\* C5: the launcher tries the direct spawn first and the `open` spawn if and
\* only if the direct one failed with "not found"; it returns 0 when its last
\* spawn succeeded and 1 otherwise, spawns at most twice, and writes exactly
\* one message to the error stream on each failure path.
C5_LauncherStateMachine ==
    /\ Len(spawns) <= 2
    /\ pc = "fallback" =>
          /\ Len(spawns) = 1
          /\ spawns[1].outcome = "FileNotFoundError"
          /\ LaunchFailureLines = <<>>
    /\ LauncherReturned =>
          /\ spawns # <<>>
          /\ spawns[1].strategy = "direct"
          /\ Len(spawns) = 2 <=> spawns[1].outcome = "FileNotFoundError"
          /\ Len(spawns) = 2 => spawns[2].strategy = "open"
          /\ ret = IF spawns[Len(spawns)].outcome = "ok" THEN 0 ELSE 1
          /\ Len(LaunchFailureLines) = IF ret = 1 THEN 1 ELSE 0

C5_Witness ==
    /\ LauncherReturned
    /\ Len(spawns) = 2
    /\ spawns[2].outcome = "Exception"
    /\ ret = 1

\* C6: when the requested name equals a gaia_name or user_name but no
\* `name`, the resolver returns the key of the first record whose gaia_name
\* or user_name equals it.
C6_SecondaryPass ==
    (ResolverRan /\ NameIdx = {} /\ SecIdx # {}) =>
        resolved_dir = ReturnDir(LoadedCache[Min(SecIdx)].k)

C6_Witness ==
    /\ ResolverRan
    /\ NameIdx = {}
    /\ SecIdx # {}
    /\ Min(SecIdx) = 2
    /\ ~HasField(LoadedCache[2].v, "gaia_name", desired_display_name)
    /\ resolved_dir = ReturnDir(LoadedCache[2].k)

\* C7: when the file is missing, unreadable or not valid JSON, the resolver
\* returns absent, nothing is spawned, main exits with code 2 and the only
\* output is the "not found" message.
C7_UnreadableFile ==
    file.status # "ok" =>
        /\ spawns = <<>>
        /\ stdout = <<>>
        /\ ResolverRan => resolved_dir = ReturnNone
        /\ \A i \in DOMAIN stderr : stderr[i] = NotFoundLine(desired_display_name)
        /\ pc = "done" =>
              /\ exit_code = 2
              /\ stderr = <<NotFoundLine(desired_display_name)>>

C7_Witness ==
    /\ file.status = "invalid_json"
    /\ pc = "done"
    /\ Len(argv) = 2
    /\ exit_code = 2

\* C8: a directory returned by the resolver is a key of the info_cache that
\* was read, its record matches the requested name on name, gaia_name or
\* user_name, and every spawn is given exactly that key.
C8_ResolvedIsKey ==
    ReturnedDir =>
        /\ \E i \in DOMAIN LoadedCache :
              /\ LoadedCache[i].k = resolved_dir.val
              /\ i \in NameIdx \cup SecIdx
        /\ \A i \in DOMAIN spawns :
              spawns[i].arg = <<"--profile-directory=", resolved_dir.val>>

C8_Witness ==
    /\ ReturnedDir
    /\ resolved_dir.val = "Profile 2"
    /\ Len(spawns) = 2

\* C9: on the failed-lookup path the "not found" message and the listing of
\* the profiles are written to the error stream and nothing to standard
\* output.
C9_DiagnosticsOnStderr ==
    pc \in {"exit2", "done"} /\ ~truthy(resolved_dir) => stdout = <<>>

\* C10: a match on `name` anywhere in the cache wins over a match on
\* gaia_name or user_name earlier in the cache; a record that matches only on
\* gaia_name or user_name is returned only when no record matches on `name`.
C10_PrimaryPriority ==
    ResolverRan =>
        /\ NameIdx # {} => resolved_dir = ReturnDir(LoadedCache[Min(NameIdx)].k)
        /\ \A i \in SecIdx \ NameIdx :
              (ReturnedDir /\ resolved_dir.val = LoadedCache[i].k) => NameIdx = {}

C10_Witness ==
    /\ ResolverRan
    /\ NameIdx # {}
    /\ SecIdx # {}
    /\ Min(SecIdx) < Min(NameIdx)
    /\ resolved_dir = ReturnDir(LoadedCache[Min(NameIdx)].k)

====
